---- MODULE Spec2Model ----
(***************************************************************************)
(* ddshark terminal UI: the event/tick loop of Tui (src/src/ui.rs) and the *)
(* list navigation of TabAbnormality (src/src/ui/tab_abnormality.rs).      *)
(*                                                                         *)
(* The UI thread is modelled statement by statement through `pc`; the      *)
(* state producer, the keyboard and the clock are the environment.         *)
(***************************************************************************)
EXTENDS Integers, Sequences, FiniteSets, TLC

\* ------------------------------------------------------------------ bounds
MaxRows == 1       \* largest number of records the producer puts in a collection
MaxQueue == 2      \* most input events waiting in the terminal's queue
MaxInputs == 1     \* key presses and store updates in one run, with I/O faults
MaxKeyInputs == 2  \* key presses and store updates in one run, without I/O faults
NavMaxRows == 32   \* largest collection shown to a single view driven on its own
TickDur == 1       \* tick_dur handed to Tui::new, in clock units
MaxRecords == 3    \* most abnormality records in the store when the table is drawn
MaxWhen == 2       \* latest `when` of a record, in half seconds after the first

\* --------------------------------------------------------------- constants
NTabs == 4         \* TAB_TITLES.len()
PageStep == 30     \* rows moved by previous_page / next_page
None == -1         \* Option::None of TableState::selected

Tabs == 0 .. (NTabs - 1)
NavKeys == {"Up", "Down", "PageUp", "PageDown", "Home", "End"}
TabKeys == {"Tab", "BackTab"}
InertKeys == {"Left", "Right", "Other"}
Keys == {"q"} \cup NavKeys \cup TabKeys \cup InertKeys
\* "Mouse" stands for every event that is not Event::Key (mouse, resize, ...)
Events == Keys \cup {"Mouse"}
\* one key of each kind: quit, navigation, tab switch
LiveKeys == {"q", "Down", "Tab"}

Min(a, b) == IF a <= b THEN a ELSE b
Max(a, b) == IF a >= b THEN a ELSE b

VARIABLES
    pc,          \* position of the UI thread inside Tui::run / run_loop
    result,      \* what Tui::run returned: "none" while running, "ok", or the error
    raw,         \* terminal is in raw mode
    alt,         \* terminal shows the alternate screen
    mouse,       \* mouse capture is enabled
    cursor,      \* text cursor is visible
    termLog,     \* terminal-control calls Tui::run completed, in order
    tab_index,   \* Tui::tab_index
    views,       \* the four tabs: [num_entries, selected] each
    store,       \* State behind the mutex: number of records per collection
    lock,        \* the mutex: "free", "producer", "ui" or "poisoned"
    events,      \* input events waiting to be read, oldest first
    elapsed,     \* last_tick.elapsed(), saturated at TickDur
    remaining,   \* what is left of the timeout handed to event::poll
    sinceDraw,   \* time since the previous draw was started, saturated at TickDur
    rendered,    \* draw_ui rendered a view in the frame being flushed
    inputsLeft,  \* key presses and store updates the environment may still make
    abnormalities, \* State::abnormalities, the records themselves
    frame        \* what the last render of the Abnormalities table drew

vars == << pc, result, raw, alt, mouse, cursor, termLog, tab_index, views, store,
           lock, events, elapsed, remaining, sinceDraw, rendered, inputsLeft,
           abnormalities, frame >>

termVars == << raw, alt, mouse, cursor, termLog >>
uiVars == << tab_index, views >>
clockVars == << elapsed, remaining, sinceDraw >>
envVars == << store, lock, events, inputsLeft >>
\* `store` keeps the number of records of each collection; where the contents
\* of the table matter the records are in `abnormalities` and the table drawn
\* from them in `frame`
tableVars == << abnormalities, frame >>

\* no table drawn yet
NoFrame == [order |-> << >>, rows |-> << >>, widths |-> << >>]

LoopPcs == {"loop", "poll", "tick", "draw", "render", "flush"}

\* ------------------------------------------------- TabAbnormality (one view)

\* TabAbnormality::new
NewView == [num_entries |-> 0, selected |-> None]

\* usize::saturating_sub
SatSub(a, b) == IF a >= b THEN a - b ELSE 0

\* TableState::select(Some(idx))
Select(v, idx) == [v EXCEPT !.selected = idx]

previous_item(v) ==
    IF v.num_entries > 0
    THEN Select(v, IF v.selected # None THEN SatSub(v.selected, 1) ELSE 0)
    ELSE v

\* mutant: the step forward is not held at the last row
next_item_NoClamp(v) ==
    IF v.num_entries >= 1
    THEN Select(v, IF v.selected # None THEN v.selected + 1 ELSE 0)
    ELSE v

next_item(v) ==
    IF v.num_entries >= 1
    THEN LET last_idx == v.num_entries - 1
         IN  Select(v, IF v.selected # None
                       THEN Min(v.selected + 1, last_idx)
                       ELSE 0)
    ELSE v

\* mutant: a page is one row
previous_page_OneRow(v) ==
    IF v.num_entries > 0
    THEN Select(v, IF v.selected # None THEN SatSub(v.selected, 1) ELSE 0)
    ELSE v

previous_page(v) ==
    IF v.num_entries > 0
    THEN Select(v, IF v.selected # None THEN SatSub(v.selected, PageStep) ELSE 0)
    ELSE v

next_page(v) ==
    IF v.num_entries >= 1
    THEN LET last_idx == v.num_entries - 1
         IN  Select(v, IF v.selected # None
                       THEN Min(v.selected + PageStep, last_idx)
                       ELSE 0)
    ELSE v

\* mutant: the emptiness test is left out
first_item_Unguarded(v) == Select(v, 0)

first_item(v) ==
    IF v.num_entries > 0 THEN Select(v, 0) ELSE v

last_item(v) ==
    IF v.num_entries >= 1 THEN Select(v, v.num_entries - 1) ELSE v

\* TabAbnormality::render: the rows are built from state.abnormalities, their
\* number is saved in num_entries, and the table is drawn with table_state,
\* whose selection the widget reads but does not write.
render(v, n) == [v EXCEPT !.num_entries = n]

\* TabWriter, TabReader and TabTopic: the same navigation and the same
\* row bookkeeping over their own collection.
SiblingNav(k, v) ==
    CASE k = "Up" -> previous_item(v)
      [] k = "Down" -> next_item(v)
      [] k = "PageUp" -> previous_page(v)
      [] k = "PageDown" -> next_page(v)
      [] k = "Home" -> first_item(v)
      [] k = "End" -> last_item(v)

SiblingRender(v, n) == render(v, n)

\* ------------------------------------------------------------ Tui dispatch

key_up(ti, vs) ==
    [vs EXCEPT ![ti] = IF ti = 3 THEN previous_item(vs[ti]) ELSE SiblingNav("Up", vs[ti])]

\* mutant: the key goes to the view of the tab before the active one
key_down_PrevView(ti, vs) ==
    [vs EXCEPT ![(ti + 3) % NTabs] = next_item(vs[(ti + 3) % NTabs])]

key_down(ti, vs) ==
    [vs EXCEPT ![ti] = IF ti = 3 THEN next_item(vs[ti]) ELSE SiblingNav("Down", vs[ti])]

key_page_up(ti, vs) ==
    [vs EXCEPT ![ti] = IF ti = 3 THEN previous_page(vs[ti]) ELSE SiblingNav("PageUp", vs[ti])]

key_page_down(ti, vs) ==
    [vs EXCEPT ![ti] = IF ti = 3 THEN next_page(vs[ti]) ELSE SiblingNav("PageDown", vs[ti])]

key_home(ti, vs) ==
    [vs EXCEPT ![ti] = IF ti = 3 THEN first_item(vs[ti]) ELSE SiblingNav("Home", vs[ti])]

key_end(ti, vs) ==
    [vs EXCEPT ![ti] = IF ti = 3 THEN last_item(vs[ti]) ELSE SiblingNav("End", vs[ti])]

\* the `_ => unreachable!()` arm of a match on tab_index
Unreachable(ti) == ti \notin Tabs

NextTab(ti) == (ti + 1) % NTabs

\* mutant: no wrap-around below tab 0
PrevTab_NoWrap(ti) == ti - 1

PrevTab(ti) == (ti + (NTabs - 1)) % NTabs

\* mutant: the key handlers count the rows of the store afresh
KeyViews_FreshCount(k, ti, vs) ==
    LET fresh == [vs EXCEPT ![ti].num_entries = store[ti]]
    IN  CASE k = "Up" -> key_up(ti, fresh)
          [] k = "Down" -> key_down(ti, fresh)
          [] k = "PageUp" -> key_page_up(ti, fresh)
          [] k = "PageDown" -> key_page_down(ti, fresh)
          [] k = "Home" -> key_home(ti, fresh)
          [] k = "End" -> key_end(ti, fresh)
          [] OTHER -> vs

\* the match on key.code in process_events, for an event that is a key
KeyViews(k, ti, vs) ==
    CASE k = "Up" -> key_up(ti, vs)
      [] k = "Down" -> key_down(ti, vs)
      [] k = "PageUp" -> key_page_up(ti, vs)
      [] k = "PageDown" -> key_page_down(ti, vs)
      [] k = "Home" -> key_home(ti, vs)
      [] k = "End" -> key_end(ti, vs)
      [] OTHER -> vs

KeyTab(k, ti) ==
    CASE k = "Tab" -> NextTab(ti)
      [] k = "BackTab" -> PrevTab(ti)
      [] OTHER -> ti

\* mutant: every tab is rendered, not only the active one
DrawViews_AllTabs(ti, vs, st) == [t \in Tabs |-> render(vs[t], st[t])]

\* the match on tab_index in draw_ui
DrawViews(ti, vs, st) ==
    [vs EXCEPT ![ti] = IF ti = 3 THEN render(vs[ti], st[ti]) ELSE SiblingRender(vs[ti], st[ti])]

\* timeout = tick_dur.checked_sub(last_tick.elapsed()).unwrap_or(0)
Timeout(e) == IF TickDur >= e THEN TickDur - e ELSE 0


\* ------------------------------------------------------------------- Init

\* Tui::new, before Tui::run is entered; the producer may have filled the
\* store already, and `budget` inputs are still to come
InitWith(budget) ==
    /\ pc = "start"
    /\ result = "none"
    /\ raw = FALSE
    /\ alt = FALSE
    /\ mouse = FALSE
    /\ cursor = TRUE
    /\ termLog = << >>
    /\ tab_index = 0
    /\ views = [t \in Tabs |-> NewView]
    /\ \E n \in 0 .. MaxRows : store = [t \in Tabs |-> n]
    /\ lock = "free"
    /\ events = << >>
    /\ elapsed = 0
    /\ remaining = 0
    /\ sinceDraw = TickDur
    /\ rendered = FALSE
    /\ inputsLeft = budget
    /\ abnormalities = << >>
    /\ frame = NoFrame

Init == InitWith(MaxInputs)

KeyInit == InitWith(MaxKeyInputs)

\* ------------------------------------------------------------ Tui::run

\* run_loop's locals (last_tick, timeout) are gone once it returns
LoopLocalsDropped ==
    /\ elapsed' = 0
    /\ remaining' = 0
    /\ sinceDraw' = 0
    /\ rendered' = FALSE

\* an `?` that returns the error from run; once `terminal` exists its Drop
\* tries to show the cursor again, which may or may not succeed
ReturnErr(err, hasTerminal) ==
    /\ pc' = "done"
    /\ result' = err
    /\ cursor' \in (IF hasTerminal THEN {cursor, TRUE} ELSE {cursor})
    /\ LoopLocalsDropped
    /\ UNCHANGED << raw, alt, mouse, termLog >>

EnableRawMode ==
    /\ pc = "start"
    /\ raw' = TRUE
    /\ termLog' = Append(termLog, "enable_raw_mode")
    /\ pc' = "setup_alt"
    /\ UNCHANGED << result, alt, mouse, cursor, uiVars, clockVars, envVars, rendered >>
    /\ UNCHANGED tableVars

EnterAlternateScreen ==
    /\ pc = "setup_alt"
    /\ alt' = TRUE
    /\ termLog' = Append(termLog, "EnterAlternateScreen")
    /\ pc' = "setup_mouse"
    /\ UNCHANGED << result, raw, mouse, cursor, uiVars, clockVars, envVars, rendered >>
    /\ UNCHANGED tableVars

EnableMouseCapture ==
    /\ pc = "setup_mouse"
    /\ mouse' = TRUE
    /\ termLog' = Append(termLog, "EnableMouseCapture")
    /\ pc' = "term_new"
    /\ UNCHANGED << result, raw, alt, cursor, uiVars, clockVars, envVars, rendered >>
    /\ UNCHANGED tableVars

\* Terminal::new, then run_loop is entered and last_tick = Instant::now()
TerminalNew ==
    /\ pc = "term_new"
    /\ pc' = "loop"
    /\ elapsed' = 0
    /\ UNCHANGED << result, termVars, uiVars, remaining, sinceDraw, envVars, rendered >>
    /\ UNCHANGED tableVars

SetupFail ==
    /\ pc \in {"start", "setup_alt", "setup_mouse", "term_new"}
    /\ ReturnErr("err_" \o pc, FALSE)
    /\ UNCHANGED << uiVars, envVars >>
    /\ UNCHANGED tableVars

DisableRawMode ==
    /\ pc = "td_raw"
    /\ raw' = FALSE
    /\ termLog' = Append(termLog, "disable_raw_mode")
    /\ pc' = "td_alt"
    /\ UNCHANGED << result, alt, mouse, cursor, uiVars, clockVars, envVars, rendered >>
    /\ UNCHANGED tableVars

\* mutant: the restore block forgets LeaveAlternateScreen
LeaveAlternateScreen_Forgotten ==
    /\ pc = "td_alt"
    /\ pc' = "td_mouse"
    /\ UNCHANGED << result, termVars, uiVars, clockVars, envVars, rendered >>
    /\ UNCHANGED tableVars

LeaveAlternateScreen ==
    /\ pc = "td_alt"
    /\ alt' = FALSE
    /\ termLog' = Append(termLog, "LeaveAlternateScreen")
    /\ pc' = "td_mouse"
    /\ UNCHANGED << result, raw, mouse, cursor, uiVars, clockVars, envVars, rendered >>
    /\ UNCHANGED tableVars

DisableMouseCapture ==
    /\ pc = "td_mouse"
    /\ mouse' = FALSE
    /\ termLog' = Append(termLog, "DisableMouseCapture")
    /\ pc' = "td_cursor"
    /\ UNCHANGED << result, raw, alt, cursor, uiVars, clockVars, envVars, rendered >>
    /\ UNCHANGED tableVars

ShowCursor ==
    /\ pc = "td_cursor"
    /\ cursor' = TRUE
    /\ termLog' = Append(termLog, "show_cursor")
    /\ pc' = "done"
    /\ result' = "ok"
    /\ UNCHANGED << raw, alt, mouse, uiVars, clockVars, envVars, rendered >>
    /\ UNCHANGED tableVars

TeardownFail ==
    /\ pc \in {"td_raw", "td_alt", "td_mouse", "td_cursor"}
    /\ ReturnErr("err_" \o pc, TRUE)
    /\ UNCHANGED << uiVars, envVars >>
    /\ UNCHANGED tableVars

\* --------------------------------------------------------- Tui::run_loop

\* top of `loop`: the timeout for this iteration's poll
LoopHead ==
    /\ pc = "loop"
    /\ remaining' = Timeout(elapsed)
    /\ pc' = "poll"
    /\ UNCHANGED << result, termVars, uiVars, elapsed, sinceDraw, envVars, rendered >>
    /\ UNCHANGED tableVars

\* process_events: event::poll(timeout) found nothing until the timeout ran out
PollTimeout ==
    /\ pc = "poll"
    /\ events = << >>
    /\ remaining = 0
    /\ pc' = "tick"
    /\ UNCHANGED << result, termVars, uiVars, clockVars, envVars, rendered >>
    /\ UNCHANGED tableVars

\* what ProcessEvent does with the event e it has read
Handle(e) ==
    /\ IF e = "q"
       THEN /\ pc' = "td_raw"
            /\ LoopLocalsDropped
            /\ UNCHANGED uiVars
       ELSE /\ IF e \in NavKeys /\ Unreachable(tab_index)
               THEN /\ pc' = "panic"
                    /\ UNCHANGED uiVars
               ELSE /\ pc' = "tick"
                    /\ tab_index' = KeyTab(e, tab_index)
                    /\ views' = KeyViews(e, tab_index, views)
            /\ remaining' = 0
            /\ UNCHANGED << elapsed, sinceDraw, rendered >>
    /\ UNCHANGED << result, termVars, store, lock, inputsLeft >>

\* mutant: after an event the loop goes straight back to polling
ProcessEvent_Continue ==
    /\ pc = "poll"
    /\ events # << >>
    /\ events' = Tail(events)
    /\ pc' = IF Head(events) = "q" THEN "td_raw" ELSE "loop"
    /\ tab_index' = KeyTab(Head(events), tab_index)
    /\ views' = KeyViews(Head(events), tab_index, views)
    /\ IF Head(events) = "q" THEN LoopLocalsDropped
       ELSE remaining' = 0 /\ UNCHANGED << elapsed, sinceDraw, rendered >>
    /\ UNCHANGED << result, termVars, store, lock, inputsLeft >>
    /\ UNCHANGED tableVars

\* mutant: the event after the one handled is read and dropped as well
ProcessEvent_Drain ==
    /\ pc = "poll"
    /\ events # << >>
    /\ events' = IF Len(events) >= 2 THEN Tail(Tail(events)) ELSE Tail(events)
    /\ Handle(Head(events))
    /\ UNCHANGED tableVars

\* mutant: `q` is handled like any other key
ProcessEvent_NoBreak ==
    /\ pc = "poll"
    /\ events # << >>
    /\ events' = Tail(events)
    /\ pc' = "tick"
    /\ remaining' = 0
    /\ UNCHANGED << result, termVars, uiVars, elapsed, sinceDraw, rendered, store,
                    lock, inputsLeft >>
    /\ UNCHANGED tableVars

\* process_events: event::poll(timeout) saw an event, event::read takes the
\* oldest one and the match on key.code handles it
ProcessEvent ==
    /\ pc = "poll"
    /\ events # << >>
    /\ events' = Tail(events)
    /\ Handle(Head(events))
    /\ UNCHANGED tableVars

\* mutant: the error of event::poll is noted and the iteration goes on
PollFail_Continue ==
    /\ pc = "poll"
    /\ result' = "err_poll"
    /\ pc' = "tick"
    /\ UNCHANGED << termVars, uiVars, clockVars, envVars, rendered >>
    /\ UNCHANGED tableVars

\* event::poll(timeout)? returns an I/O error
PollFail ==
    /\ pc = "poll"
    /\ ReturnErr("err_poll", TRUE)
    /\ UNCHANGED << uiVars, envVars >>
    /\ UNCHANGED tableVars

\* event::read()? returns an I/O error
ReadFail ==
    /\ pc = "poll"
    /\ events # << >>
    /\ ReturnErr("err_read", TRUE)
    /\ UNCHANGED << uiVars, envVars >>
    /\ UNCHANGED tableVars

\* mutant: the draw is not held back until the tick is over
DrawDue_EveryIteration ==
    /\ pc = "tick"
    /\ pc' = "draw"
    /\ sinceDraw' = 0
    /\ UNCHANGED << result, termVars, uiVars, elapsed, remaining, envVars, rendered >>
    /\ UNCHANGED tableVars

\* elapsed_time >= tick_dur: terminal.draw is called
DrawDue ==
    /\ pc = "tick"
    /\ elapsed >= TickDur
    /\ pc' = "draw"
    /\ sinceDraw' = 0
    /\ UNCHANGED << result, termVars, uiVars, elapsed, remaining, envVars, rendered >>
    /\ UNCHANGED tableVars

\* elapsed_time < tick_dur: no draw in this iteration
DrawSkip ==
    /\ pc = "tick"
    /\ elapsed < TickDur
    /\ pc' = "loop"
    /\ UNCHANGED << result, termVars, uiVars, clockVars, envVars, rendered >>
    /\ UNCHANGED tableVars

\* terminal.draw fails before the closure runs (autoresize)
DrawResizeFail ==
    /\ pc = "draw"
    /\ ReturnErr("err_draw", TRUE)
    /\ UNCHANGED << uiVars, envVars >>
    /\ UNCHANGED tableVars

\* draw_ui: self.state.lock() succeeds (it blocks while the producer holds it)
DrawLock ==
    /\ pc = "draw"
    /\ lock = "free"
    /\ lock' = "ui"
    /\ pc' = "render"
    /\ UNCHANGED << result, termVars, uiVars, clockVars, store, events, inputsLeft, rendered >>
    /\ UNCHANGED tableVars

\* mutant: self.state.lock().unwrap()
DrawPoisoned_Unwrap ==
    /\ pc = "draw"
    /\ lock = "poisoned"
    /\ pc' = "panic"
    /\ UNCHANGED << result, termVars, uiVars, clockVars, envVars, rendered >>
    /\ UNCHANGED tableVars

\* draw_ui: self.state.lock() is poisoned: log and return
DrawPoisoned ==
    /\ pc = "draw"
    /\ lock = "poisoned"
    /\ pc' = "flush"
    /\ rendered' = FALSE
    /\ UNCHANGED << result, termVars, uiVars, clockVars, envVars >>
    /\ UNCHANGED tableVars

\* mutant: the guard outlives draw_ui
DrawRender_GuardKept ==
    /\ pc = "render"
    /\ pc' = "flush"
    /\ views' = DrawViews(tab_index, views, store)
    /\ rendered' = TRUE
    /\ UNCHANGED << result, termVars, tab_index, clockVars, envVars >>
    /\ UNCHANGED tableVars

\* draw_ui: tabs strip, the active tab's render, and the guard is dropped
DrawRender ==
    /\ pc = "render"
    /\ IF Unreachable(tab_index)
       THEN /\ pc' = "panic"
            /\ UNCHANGED << views, rendered >>
       ELSE /\ pc' = "flush"
            /\ views' = DrawViews(tab_index, views, store)
            /\ rendered' = TRUE
    /\ lock' = "free"
    /\ UNCHANGED << result, termVars, tab_index, clockVars, store, events, inputsLeft >>
    /\ UNCHANGED tableVars

\* terminal.draw flushes the frame (hiding the cursor); last_tick = Instant::now()
Flush ==
    /\ pc = "flush"
    /\ cursor' = FALSE
    /\ elapsed' = 0
    /\ rendered' = FALSE
    /\ pc' = "loop"
    /\ UNCHANGED << result, raw, alt, mouse, termLog, uiVars, remaining, sinceDraw,
                    envVars >>
    /\ UNCHANGED tableVars

\* terminal.draw fails after the closure ran
FlushFail ==
    /\ pc = "flush"
    /\ ReturnErr("err_draw", TRUE)
    /\ UNCHANGED << uiVars, envVars >>
    /\ UNCHANGED tableVars

\* ------------------------------------------------------------ environment

\* the environment is observed by the loop only
Running == pc \in LoopPcs

\* the clock advances by one unit
Tick ==
    /\ Running
    /\ elapsed' = Min(elapsed + 1, TickDur)
    /\ sinceDraw' = Min(sinceDraw + 1, TickDur)
    /\ remaining' = IF pc = "poll" THEN SatSub(remaining, 1) ELSE remaining
    /\ UNCHANGED << pc, result, termVars, uiVars, envVars, rendered >>
    /\ UNCHANGED tableVars

\* a key is pressed
KeyPressed(ks) ==
    /\ Running
    /\ inputsLeft > 0
    /\ Len(events) < MaxQueue
    /\ \E e \in ks : events' = Append(events, e)
    /\ inputsLeft' = inputsLeft - 1
    /\ UNCHANGED << pc, result, termVars, uiVars, clockVars, store, lock, rendered >>
    /\ UNCHANGED tableVars

KeyArrive == KeyPressed(Keys)

\* a key of the keyboard reduced to one key of each kind the loop tells
\* apart: quit, navigation, tab switch
LiveKeyArrive == KeyPressed(LiveKeys)

\* the mouse moves: with mouse capture on, events that are no keys keep coming
MouseArrive ==
    /\ Running
    /\ Len(events) < MaxQueue
    /\ events' = Append(events, "Mouse")
    /\ UNCHANGED << pc, result, termVars, uiVars, clockVars, store, lock, inputsLeft,
                    rendered >>
    /\ UNCHANGED tableVars

ProducerLock ==
    /\ Running
    /\ lock = "free"
    /\ lock' = "producer"
    /\ UNCHANGED << pc, result, termVars, uiVars, clockVars, store, events, inputsLeft,
                    rendered >>
    /\ UNCHANGED tableVars

ProducerWrite ==
    /\ Running
    /\ lock = "producer"
    /\ inputsLeft > 0
    /\ \E c \in Tabs, n \in 0 .. MaxRows :
          /\ n # store[c]
          /\ store' = [store EXCEPT ![c] = n]
    /\ inputsLeft' = inputsLeft - 1
    /\ UNCHANGED << pc, result, termVars, uiVars, clockVars, lock, events, rendered >>
    /\ UNCHANGED tableVars

ProducerUnlock ==
    /\ Running
    /\ lock = "producer"
    /\ lock' = "free"
    /\ UNCHANGED << pc, result, termVars, uiVars, clockVars, store, events, inputsLeft,
                    rendered >>
    /\ UNCHANGED tableVars

\* the producer panics while it holds the guard
ProducerPanic ==
    /\ Running
    /\ lock = "producer"
    /\ lock' = "poisoned"
    /\ UNCHANGED << pc, result, termVars, uiVars, clockVars, store, events, inputsLeft,
                    rendered >>
    /\ UNCHANGED tableVars

\* ------------------------------------- one view driven by its callers

\* TabAbnormality as the active tab, its navigation and render called in any
\* order while the abnormality collection changes; pc names the last call
NavInit ==
    /\ pc = "view_new"
    /\ result = "none"
    /\ raw = FALSE
    /\ alt = FALSE
    /\ mouse = FALSE
    /\ cursor = TRUE
    /\ termLog = << >>
    /\ tab_index = 3
    /\ views = [t \in Tabs |-> NewView]
    /\ store = [t \in Tabs |-> 0]
    /\ lock = "free"
    /\ events = << >>
    /\ elapsed = 0
    /\ remaining = 0
    /\ sinceDraw = TickDur
    /\ rendered = FALSE
    /\ inputsLeft = 0
    /\ abnormalities = << >>
    /\ frame = NoFrame

ViewPcs == {"view_new", "view_nav", "view_render"}

\* one of key_up .. key_end reaches the view
ViewNav ==
    /\ pc \in ViewPcs
    /\ \E k \in NavKeys : views' = KeyViews(k, tab_index, views)
    /\ pc' = "view_nav"
    /\ UNCHANGED << result, termVars, tab_index, clockVars, envVars, rendered >>
    /\ UNCHANGED tableVars

\* draw_ui renders the view against the store
ViewRender ==
    /\ pc \in ViewPcs
    /\ views' = DrawViews(tab_index, views, store)
    /\ pc' = "view_render"
    /\ UNCHANGED << result, termVars, tab_index, clockVars, envVars, rendered >>
    /\ UNCHANGED tableVars

\* the producer grows, shrinks or empties the view's collection
ViewStoreChange ==
    /\ pc \in ViewPcs
    /\ \E n \in 0 .. NavMaxRows :
          /\ n # store[tab_index]
          /\ store' = [store EXCEPT ![tab_index] = n]
    /\ UNCHANGED << pc, result, termVars, uiVars, clockVars, lock, events, inputsLeft,
                    rendered >>
    /\ UNCHANGED tableVars

\* --------------------------------------- the Abnormalities table (render)

\* Option<T>: << >> is None, << x >> is Some(x)
IsNone(o) == o = << >>
Unwrap(o) == o[1]

\* what a record carries besides its time: nothing known, a writer on a
\* topic, a reader on a topic
Shapes ==
    { [writer_id |-> << >>, reader_id |-> << >>, topic_name |-> << >>, desc |-> ""],
      [writer_id |-> << 1 >>, reader_id |-> << >>, topic_name |-> << "rt/chatter" >>,
       desc |-> "incompatible QoS"],
      [writer_id |-> << >>, reader_id |-> << 2 >>, topic_name |-> << "t" >>,
       desc |-> "x"] }

\* Abnormality
Records ==
    { [when |-> w, writer_id |-> sh.writer_id, reader_id |-> sh.reader_id,
       topic_name |-> sh.topic_name, desc |-> sh.desc] : w \in 0 .. MaxWhen, sh \in Shapes }

DigitStr(d) == << "0", "1", "2", "3", "4", "5", "6", "7", "8", "9" >>[d + 1]

\* DateTime::to_rfc3339: the fraction of the second is written only when
\* there is one
to_rfc3339(w) ==
    "1970-01-01T00:00:0" \o DigitStr(w \div 2)
        \o (IF w % 2 = 1 THEN ".500" ELSE "") \o "+00:00"

\* GUIDExt::display
GuidDisplay(g) == "010f0000000000000000000" \o DigitStr(g) \o "|0.0.1.c1"

guid_to_string(guid) == IF IsNone(guid) THEN "<none>" ELSE GuidDisplay(Unwrap(guid))

\* the closure that turns a record into the five cells of its row
RowOf(report) ==
    << to_rfc3339(report.when),
       guid_to_string(report.writer_id),
       guid_to_string(report.reader_id),
       IF IsNone(report.topic_name) THEN "<none>" ELSE Unwrap(report.topic_name),
       report.desc >>

Header == << "when", "writer", "reader", "topic", "desc" >>

\* Ord::cmp and Ordering::reverse
Cmp(a, b) == IF a < b THEN "Less" ELSE IF a = b THEN "Equal" ELSE "Greater"
Reverse(o) ==
    CASE o = "Less" -> "Greater"
      [] o = "Equal" -> "Equal"
      [] o = "Greater" -> "Less"

\* mutant: the comparison is not reversed
ByWhen_NotReversed(lhs, rhs) == Cmp(lhs.when, rhs.when)

\* |lhs, rhs| lhs.when.cmp(&rhs.when).reverse()
ByWhen(lhs, rhs) == Reverse(Cmp(lhs.when, rhs.when))

Perms(n) == { f \in [1 .. n -> 1 .. n] : \A a, b \in 1 .. n : f[a] = f[b] => a = b }

\* sort_unstable_by(ByWhen): the elements rearranged so that none compares
\* Greater than its successor; equal elements end in any order
SortUnstableBy(recs) ==
    { sorted \in { [j \in 1 .. Len(recs) |-> recs[f[j]]] : f \in Perms(Len(recs)) } :
        \A j \in 1 .. (Len(sorted) - 1) : ByWhen(sorted[j], sorted[j + 1]) # "Greater" }

\* rows.iter().map(|row| row[idx].len()).max().unwrap_or(0); columns count
\* from 1 here
RECURSIVE MaxCellLen(_, _)
MaxCellLen(rows, idx) ==
    IF rows = << >>
    THEN 0
    ELSE Max(Len(Head(rows)[idx]), MaxCellLen(Tail(rows), idx))

\* `as u16`
AsU16(n) == n % 65536

\* mutant: the header is not taken into the maximum
ColumnWidth_CellsOnly(rows, idx) == AsU16(MaxCellLen(rows, idx))

\* Constraint::Max(max_len as u16) of one column
ColumnWidth(rows, idx) == AsU16(Max(MaxCellLen(rows, idx), Len(Header[idx])))

Widths(rows) == [idx \in 1 .. Len(Header) |-> ColumnWidth(rows, idx)]

\* TabAbnormality on its own with the records of the store spelled out; pc
\* names the last thing that happened
TableInit ==
    /\ pc = "table_new"
    /\ result = "none"
    /\ raw = FALSE
    /\ alt = FALSE
    /\ mouse = FALSE
    /\ cursor = TRUE
    /\ termLog = << >>
    /\ tab_index = 3
    /\ views = [t \in Tabs |-> NewView]
    /\ store = [t \in Tabs |-> 0]
    /\ lock = "free"
    /\ events = << >>
    /\ elapsed = 0
    /\ remaining = 0
    /\ sinceDraw = TickDur
    /\ rendered = FALSE
    /\ inputsLeft = 0
    /\ abnormalities = << >>
    /\ frame = NoFrame

TablePcs == {"table_new", "table_store", "table_render"}

\* the producer reports an abnormality; the rows of the frame before are gone
TableInsert ==
    /\ pc \in TablePcs
    /\ Len(abnormalities) < MaxRecords
    /\ \E r \in Records : abnormalities' = Append(abnormalities, r)
    /\ store' = [store EXCEPT ![3] = Len(abnormalities')]
    /\ frame' = NoFrame
    /\ pc' = "table_store"
    /\ UNCHANGED << result, termVars, uiVars, clockVars, lock, events, inputsLeft,
                    rendered >>

\* the producer takes a record back
TableRemove ==
    /\ pc \in TablePcs
    /\ \E j \in 1 .. Len(abnormalities) :
          abnormalities' = SubSeq(abnormalities, 1, j - 1)
                              \o SubSeq(abnormalities, j + 1, Len(abnormalities))
    /\ store' = [store EXCEPT ![3] = Len(abnormalities')]
    /\ frame' = NoFrame
    /\ pc' = "table_store"
    /\ UNCHANGED << result, termVars, uiVars, clockVars, lock, events, inputsLeft,
                    rendered >>

\* TabAbnormality::render: sort, build the rows, compute the widths, save
\* rows.len(), draw
TableRender ==
    /\ pc \in TablePcs
    /\ \E sorted \in SortUnstableBy(abnormalities) :
          LET rows == [j \in 1 .. Len(sorted) |-> RowOf(sorted[j])]
          IN  /\ frame' = [order |-> sorted, rows |-> rows, widths |-> Widths(rows)]
              /\ views' = [views EXCEPT ![tab_index] = render(@, Len(rows))]
    /\ pc' = "table_render"
    /\ UNCHANGED << result, termVars, tab_index, clockVars, envVars, rendered,
                    abnormalities >>

\* ------------------------------------------------------------------- Next

\* the steps of the UI thread that are no I/O failure
UiStep ==
    \/ EnableRawMode
    \/ EnterAlternateScreen
    \/ EnableMouseCapture
    \/ TerminalNew
    \/ LoopHead
    \/ PollTimeout
    \/ ProcessEvent
    \/ DrawDue
    \/ DrawSkip
    \/ DrawPoisoned
    \/ DrawRender
    \/ Flush
    \/ DisableRawMode
    \/ LeaveAlternateScreen
    \/ DisableMouseCapture
    \/ ShowCursor

Next ==
    \/ EnableRawMode
    \/ EnterAlternateScreen
    \/ EnableMouseCapture
    \/ TerminalNew
    \/ SetupFail
    \/ LoopHead
    \/ PollTimeout
    \/ ProcessEvent
    \/ PollFail
    \/ ReadFail
    \/ DrawDue
    \/ DrawSkip
    \/ DrawResizeFail
    \/ DrawLock
    \/ DrawPoisoned
    \/ DrawRender
    \/ Flush
    \/ FlushFail
    \/ DisableRawMode
    \/ LeaveAlternateScreen
    \/ DisableMouseCapture
    \/ ShowCursor
    \/ TeardownFail
    \/ Tick
    \/ KeyArrive
    \/ MouseArrive
    \/ ProducerLock
    \/ ProducerWrite
    \/ ProducerUnlock
    \/ ProducerPanic

\* Next with the keyboard reduced to LiveKeys
LiveNext ==
    \/ EnableRawMode
    \/ EnterAlternateScreen
    \/ EnableMouseCapture
    \/ TerminalNew
    \/ SetupFail
    \/ LoopHead
    \/ PollTimeout
    \/ ProcessEvent
    \/ PollFail
    \/ ReadFail
    \/ DrawDue
    \/ DrawSkip
    \/ DrawResizeFail
    \/ DrawLock
    \/ DrawPoisoned
    \/ DrawRender
    \/ Flush
    \/ FlushFail
    \/ DisableRawMode
    \/ LeaveAlternateScreen
    \/ DisableMouseCapture
    \/ ShowCursor
    \/ TeardownFail
    \/ Tick
    \/ LiveKeyArrive
    \/ MouseArrive
    \/ ProducerLock
    \/ ProducerWrite
    \/ ProducerUnlock
    \/ ProducerPanic

\* the program in an environment where terminal I/O never fails and the
\* producer never panics
KeyNext ==
    \/ EnableRawMode
    \/ EnterAlternateScreen
    \/ EnableMouseCapture
    \/ TerminalNew
    \/ LoopHead
    \/ PollTimeout
    \/ ProcessEvent
    \/ DrawDue
    \/ DrawSkip
    \/ DrawLock
    \/ DrawRender
    \/ Flush
    \/ DisableRawMode
    \/ LeaveAlternateScreen
    \/ DisableMouseCapture
    \/ ShowCursor
    \/ Tick
    \/ KeyArrive
    \/ ProducerLock
    \/ ProducerWrite
    \/ ProducerUnlock

NavNext ==
    \/ ViewNav
    \/ ViewRender
    \/ ViewStoreChange

TableNext ==
    \/ TableInsert
    \/ TableRemove
    \/ TableRender

\* the whole program: every I/O call may fail, the producer may panic
Spec == Init /\ [][Next]_vars

\* the whole program at the reduced keyboard, where the UI thread keeps
\* running, the clock keeps advancing, the producer does not hold the lock
\* forever and a lock that is free again and again is eventually acquired
FairSpec ==
    /\ Init /\ [][LiveNext]_vars
    /\ WF_vars(UiStep)
    /\ SF_vars(DrawLock)
    /\ WF_vars(Tick)
    /\ WF_vars(ProducerUnlock)

KeySpec == KeyInit /\ [][KeyNext]_vars

NavSpec == NavInit /\ [][NavNext]_vars

TableSpec == TableInit /\ [][TableNext]_vars

\* ================================================================= claims

Range(q) == {q[i] : i \in 1 .. Len(q)}

IsPrefix(a, b) == Len(a) <= Len(b) /\ SubSeq(b, 1, Len(a)) = a

SetupPcs == {"start", "setup_alt", "setup_mouse", "term_new"}
TeardownPcs == {"td_raw", "td_alt", "td_mouse", "td_cursor"}
TeardownErrs == {"err_td_raw", "err_td_alt", "err_td_mouse", "err_td_cursor"}

\* C1: after any navigation call on a view, whatever renders and changes of
\* the collection came before it, selected is None exactly when num_entries
\* is 0, and otherwise lies in [0, num_entries).
\* Fails: render takes over the new row count without touching the selection,
\* and previous_item / previous_page / the empty-collection no-op keep a
\* stale index.
C1_SelectedInRangeAfterNav ==
    pc = "view_nav" =>
        LET v == views[tab_index]
        IN  /\ (v.selected = None) <=> (v.num_entries = 0)
            /\ v.selected # None => (0 <= v.selected /\ v.selected < v.num_entries)

\* C2: whenever run has returned after raw mode was entered, the terminal is
\* restored: raw mode off, alternate screen left, mouse capture off, cursor
\* shown.
\* Fails: every `?` in run returns at once, skipping the restore block.
C2_TerminalRestoredOnReturn ==
    (pc = "done" /\ Len(termLog) >= 1) =>
        (~raw /\ ~alt /\ ~mouse /\ cursor)

\* the terminal-control calls of a run that quits normally, in program order
RunLog ==
    << "enable_raw_mode", "EnterAlternateScreen", "EnableMouseCapture",
       "disable_raw_mode", "LeaveAlternateScreen", "DisableMouseCapture",
       "show_cursor" >>

\* C3 as stated: set up raw mode, alternate screen, mouse capture, and on a
\* normal stop undo them in the opposite order, then show the cursor.
C3_TeardownReversesSetup ==
    result = "ok" =>
        termLog = << "enable_raw_mode", "EnterAlternateScreen", "EnableMouseCapture",
                     "DisableMouseCapture", "LeaveAlternateScreen", "disable_raw_mode",
                     "show_cursor" >>

\* C3 amended: the terminal-control calls run makes are always an initial
\* part of: enable raw mode, enter alternate screen, enable mouse capture,
\* disable raw mode, leave alternate screen, disable mouse capture, show
\* cursor; and a run that returns success has made all seven, in that order.
C3_TeardownOrder ==
    /\ IsPrefix(termLog, RunLog)
    /\ result = "ok" => termLog = RunLog

C3_Witness == pc = "done" /\ result = "ok" /\ ~raw /\ ~alt /\ ~mouse /\ cursor

\* C4: a draw that finds the store lock poisoned skips the frame: no view is
\* rendered, no view and no tab index changes, nothing is returned for it
\* (the only way out of the loop from there is an I/O error of the terminal);
\* the loop goes on, and a `q` waiting in the queue still ends the loop.
C4_PoisonedStep ==
    /\ (pc = "draw" /\ lock = "poisoned") =>
          /\ UNCHANGED uiVars
          /\ lock' = "poisoned"
          /\ rendered' = FALSE
          /\ \/ pc' \in {"draw", "flush"} /\ result' = "none"
             \/ pc' = "done" /\ result' = "err_draw"
    /\ (pc = "flush" /\ ~rendered) =>
          /\ UNCHANGED uiVars
          /\ \/ pc' \in {"flush", "loop"} /\ result' = "none"
             \/ pc' = "done" /\ result' = "err_draw"

C4_PoisonedFrameSkipped ==
    /\ [][C4_PoisonedStep]_vars
    /\ [](lock = "poisoned" => pc \notin {"render", "panic"})
    /\ (lock = "poisoned" /\ pc \in LoopPcs /\ "q" \in Range(events))
          ~> (pc \in TeardownPcs \/ (pc = "done" /\ result # "none"))

C4_Witness ==
    /\ pc = "flush"
    /\ lock = "poisoned"
    /\ ~rendered
    /\ events # << >>
    /\ Head(events) = "q"

\* C5: the timeout handed to the input poll is max(0, tick_dur - elapsed), so
\* a poll that times out does so with the tick deadline reached; and when
\* the UI thread keeps running, time advances and the producer lets go of
\* the lock, draws come again and again for as long as the loop runs, full
\* input queue or not.
C5_TimeoutStep ==
    /\ (pc = "loop" /\ pc' = "poll") =>
          remaining' = Max(0, TickDur - elapsed)
    /\ (pc = "poll" /\ pc' = "tick" /\ events = << >>) =>
          elapsed >= TickDur

C5_RedrawNotStarved ==
    /\ [][C5_TimeoutStep]_vars
    /\ [](pc = "poll" => remaining = Max(0, TickDur - elapsed))
    /\ (pc = "loop") ~> (pc = "draw" \/ pc \notin LoopPcs)

C5_Witness == pc = "draw" /\ ~cursor /\ Len(events) = MaxQueue

\* C6: at the elapsed-time check of an iteration a draw is started exactly
\* when elapsed >= tick_dur; a finished draw resets last_tick, nothing else
\* inside the loop does; and two draws never start less than tick_dur apart.
C6_DrawStep ==
    /\ (pc = "tick" /\ pc' # "tick") =>
          /\ (pc' = "draw") <=> (elapsed >= TickDur)
          /\ (pc' = "loop") <=> (elapsed < TickDur)
          /\ elapsed' = elapsed
    /\ (pc' = "draw" /\ pc # "draw") =>
          /\ pc = "tick"
          /\ sinceDraw >= TickDur
    /\ (pc = "flush" /\ pc' = "loop") => elapsed' = 0
    /\ (elapsed' < elapsed /\ pc' \in LoopPcs) => pc = "flush"

C6_DrawOnCadence == [][C6_DrawStep]_vars

C6_Witness == pc = "draw" /\ ~cursor /\ sinceDraw = 0

\* an event leaves the queue
Consumed == Len(events') < Len(events)

\* C7: an event leaves the queue only in process_events, one per call and
\* so one per loop iteration, always the oldest one, and with exactly that
\* key's effect on the tab index and the cursors.
C7_ConsumeStep ==
    /\ Consumed =>
          /\ pc = "poll"
          /\ pc' \in {"tick", "td_raw"}
          /\ events' = Tail(events)
          /\ Head(events) = "q" => UNCHANGED uiVars
          /\ Head(events) # "q" =>
                /\ tab_index' = KeyTab(Head(events), tab_index)
                /\ views' = KeyViews(Head(events), tab_index, views)
    /\ (pc' = "poll" /\ pc # "poll") => pc = "loop"

C7_OneEventPerIteration == [][C7_ConsumeStep]_vars

C7_Witness ==
    /\ pc = "tick"
    /\ inputsLeft = 0
    /\ tab_index = 1
    /\ events = << "Down" >>

\* the step that reads `q`
QuitStep == pc = "poll" /\ events # << >> /\ Head(events) = "q" /\ Consumed

\* C8 as stated: once `q` is consumed the teardown runs and run returns
\* success.
C8_QuitReturnsSuccess ==
    [][(pc \in TeardownPcs /\ pc' = "done") => result' = "ok"]_vars

\* C8 amended: reading `q` ends the loop in that iteration; from then on no
\* view, tab index or queue content changes and the loop is not re-entered;
\* the teardown runs and run returns success unless a teardown call fails,
\* whose error is returned instead; a queued `q` is eventually consumed
\* unless an I/O error ends the loop first.
C8_QuitStepOk ==
    /\ QuitStep => (pc' = "td_raw" /\ UNCHANGED uiVars)
    /\ (pc' = "td_raw" /\ pc # "td_raw") => QuitStep
    /\ pc \in (TeardownPcs \cup {"done"}) =>
          /\ pc' \in (TeardownPcs \cup {"done"})
          /\ UNCHANGED << uiVars, events >>
    /\ (pc \in TeardownPcs /\ pc' = "done") =>
          /\ (result' = "ok") <=> (pc = "td_cursor" /\ termLog' = RunLog)
          /\ result' # "ok" => result' \in TeardownErrs

C8_QuitEndsLoop ==
    /\ [][C8_QuitStepOk]_vars
    /\ (pc \in LoopPcs /\ "q" \in Range(events))
          ~> (pc \in TeardownPcs \/ (pc = "done" /\ result # "none"))
    /\ (pc \in TeardownPcs) ~> (pc = "done")

C8_Witness == pc = "done" /\ result = "ok" /\ events # << >>

\* C9: tab_index starts at 0 and stays in [0, 4), so no unreachable!() arm
\* runs; Tab takes i to (i+1) mod 4 and Shift+Tab to (i+3) mod 4, nothing
\* else changes it; four next-tabs from 0 give 0, one previous-tab from 0
\* gives 3, and next-tab then previous-tab is the identity.
C9_TabStep ==
    /\ (pc = "poll" /\ Consumed) =>
          /\ Head(events) = "Tab" => tab_index' = (tab_index + 1) % 4
          /\ Head(events) = "BackTab" => tab_index' = (tab_index + 3) % 4
          /\ Head(events) \notin TabKeys => tab_index' = tab_index
    /\ tab_index' # tab_index => (pc = "poll" /\ Consumed)

C9_TabIndexInRange ==
    /\ [](tab_index \in 0 .. 3 /\ pc # "panic")
    /\ (pc = "start" => tab_index = 0)
    /\ [][C9_TabStep]_vars
    /\ NextTab(NextTab(NextTab(NextTab(0)))) = 0
    /\ PrevTab(0) = 3
    /\ \A i \in 0 .. 3 : PrevTab(NextTab(i)) = i

C9_Witness == tab_index = 3 /\ inputsLeft = MaxKeyInputs - 1 /\ events = << >>

\* C10: reading a navigation key changes nothing but the selection of the
\* view of the active tab: the other views, every num_entries, the tab index
\* and the store stay as they are.
C10_NavStep ==
    (pc = "poll" /\ Consumed /\ Head(events) \in NavKeys) =>
        /\ tab_index' = tab_index
        /\ store' = store
        /\ lock' = lock
        /\ \A t \in Tabs :
              /\ views'[t].num_entries = views[t].num_entries
              /\ t # tab_index => views'[t] = views[t]

C10_NavKeyTouchesActiveViewOnly == [][C10_NavStep]_vars

C10_Witness ==
    /\ pc = "tick"
    /\ views[tab_index].selected # None
    /\ \E t \in Tabs \ {tab_index} : views[t].num_entries > 0

\* ------------------------------------------------- navigation of one view

ActiveView == views[tab_index]
ValidCursor(v) == v.selected # None /\ 0 <= v.selected /\ v.selected < v.num_entries

\* the step is a call of the navigation method bound to key k
NavCall(k) ==
    /\ pc \in ViewPcs
    /\ pc' = "view_nav"
    /\ views' = KeyViews(k, tab_index, views)

\* C11: with num_entries fixed and a valid index i, next_item then
\* previous_item gives i again unless i is the last row, previous_item then
\* next_item gives i again unless i is 0; next_item and next_page at the last
\* row and previous_item and previous_page at row 0 change nothing, however
\* often they are called.
C11_RoundTrip ==
    LET v == ActiveView
        i == v.selected
    IN  ValidCursor(v) =>
            /\ i # v.num_entries - 1 => previous_item(next_item(v)) = v
            /\ i # 0 => next_item(previous_item(v)) = v
            /\ i = v.num_entries - 1 =>
                  /\ next_item(next_item(v)) = v
                  /\ next_page(next_page(v)) = v
            /\ i = 0 =>
                  /\ previous_item(previous_item(v)) = v
                  /\ previous_page(previous_page(v)) = v

C11_SaturationStep ==
    LET v == ActiveView
    IN  /\ (ValidCursor(v) /\ v.selected = v.num_entries - 1
               /\ (NavCall("Down") \/ NavCall("PageDown"))) => views' = views
        /\ (ValidCursor(v) /\ v.selected = 0
               /\ (NavCall("Up") \/ NavCall("PageUp"))) => views' = views

C11_RoundTripAndSaturation == [] C11_RoundTrip /\ [][C11_SaturationStep]_vars

C11_Witness ==
    /\ pc = "view_nav"
    /\ ActiveView.num_entries >= 2
    /\ ActiveView.selected = ActiveView.num_entries - 1

\* C12: with num_entries = n > 0 every navigation call gives the reference
\* index: 0 for Up, Down, PageUp, PageDown from an unset cursor;
\* max(i-1, 0), min(i+1, n-1), max(i-30, 0), min(i+30, n-1) from a valid
\* index i; 0 for Home and n-1 for End whatever the cursor was.
C12_Reference(k, i, n) ==
    CASE k = "Home" -> 0
      [] k = "End" -> n - 1
      [] k \in {"Up", "Down", "PageUp", "PageDown"} /\ i = None -> 0
      [] k = "Up" /\ i # None -> Max(i - 1, 0)
      [] k = "Down" /\ i # None -> Min(i + 1, n - 1)
      [] k = "PageUp" /\ i # None -> Max(i - 30, 0)
      [] k = "PageDown" /\ i # None -> Min(i + 30, n - 1)

C12_NavStep ==
    \A k \in NavKeys :
        LET v == ActiveView
        IN  (/\ NavCall(k)
             /\ v.num_entries > 0
             /\ (k \in {"Home", "End"} \/ v.selected = None \/ ValidCursor(v)))
            => /\ views'[tab_index].selected
                     = C12_Reference(k, v.selected, v.num_entries)
               /\ views'[tab_index].num_entries = v.num_entries

C12_NavigationMatchesReference == [][C12_NavStep]_vars

C12_Witness ==
    /\ pc = "view_nav"
    /\ ActiveView.selected = PageStep
    /\ ActiveView.num_entries > PageStep + 1

\* C13: with num_entries = 0 every navigation call leaves the view as it
\* was, whether the cursor is unset or a stale index from before the
\* collection emptied, and no call panics.
C13_EmptyStep ==
    \A k \in NavKeys :
        (NavCall(k) /\ ActiveView.num_entries = 0) => views' = views

C13_EmptyNavigationIsNoOp == [](pc # "panic") /\ [][C13_EmptyStep]_vars

C13_Witness ==
    /\ pc = "view_nav"
    /\ ActiveView.num_entries = 0
    /\ ActiveView.selected # None

\* C14: after every render of a view its selected index, when present, is
\* below the num_entries that render has set.
\* Fails: render stores rows.len() and hands table_state to the table
\* widget, which reads the selection and writes only the scroll offset; an
\* index left behind by a shrunken collection stays.
C14_SelectionClampedAtRender ==
    pc = "view_render" =>
        (ActiveView.selected # None => ActiveView.selected < ActiveView.num_entries)

\* ------------------------------------------------ the Abnormalities table

WhensOf(recs) == [j \in 1 .. Len(recs) |-> recs[j].when]
Count(r, recs) == Cardinality({ j \in 1 .. Len(recs) : recs[j] = r })
Greatest(S) == CHOOSE m \in S : \A x \in S : m >= x

\* C15: the rows of a rendered Abnormalities table are the records of the
\* snapshot, each exactly once, ordered by `when` descending: each row's
\* time is at or after the next row's; records at T, T-1, T+1 come out as
\* T+1, T, T-1.
C15_RowsNewestFirst ==
    pc = "table_render" =>
        /\ Len(frame.rows) = Len(abnormalities)
        /\ \A r \in Records : Count(r, frame.order) = Count(r, abnormalities)
        /\ \A j \in 1 .. Len(frame.rows) : frame.rows[j] = RowOf(frame.order[j])
        /\ \A j \in 1 .. (Len(frame.order) - 1) :
              frame.order[j].when >= frame.order[j + 1].when
        /\ WhensOf(abnormalities) = << 1, 0, 2 >> => WhensOf(frame.order) = << 2, 1, 0 >>

C15_Witness ==
    /\ pc = "table_render"
    /\ WhensOf(abnormalities) = << 1, 0, 2 >>
    /\ frame.rows[1][1] = to_rfc3339(2)

\* C16: each of the five widths of a rendered Abnormalities table is the
\* greatest of the header's length and the lengths of that column's cells,
\* hence the header's length when there are no rows; header "topic" over
\* the single cell "<none>" gives 6.
C16_WidthIsLongestOfHeaderAndCells ==
    pc = "table_render" =>
        /\ Len(frame.widths) = 5
        /\ \A c \in 1 .. 5 :
              /\ frame.widths[c]
                    = Greatest({Len(Header[c])}
                                  \cup { Len(frame.rows[j][c]) : j \in 1 .. Len(frame.rows) })
              /\ frame.rows = << >> => frame.widths[c] = Len(Header[c])
        /\ (Len(frame.rows) = 1 /\ frame.rows[1][4] = "<none>") => frame.widths[4] = 6

C16_Witness ==
    /\ pc = "table_render"
    /\ Len(frame.rows) = 1
    /\ Header[4] = "topic"
    /\ frame.rows[1][4] = "<none>"
    /\ frame.widths[4] = 6

\* -------------------------------------------------- the store and the draw

\* C17: the UI thread owns the store lock exactly while draw_ui renders: it
\* takes the free lock once, on entering the render, gives it back when the
\* render ends and before the draw returns, and does not own it while it
\* polls or handles an event; the store changes only while the producer owns
\* the lock, never during a render; a lock owned by the UI is free again
\* after the one render.
C17_LockStep ==
    /\ (lock # "ui" /\ lock' = "ui") => (pc = "draw" /\ pc' = "render" /\ lock = "free")
    /\ (lock = "ui" /\ lock' # "ui") => (pc = "render" /\ pc' = "flush" /\ lock' = "free")
    /\ (lock = "ui" /\ pc' # pc) => lock' = "free"
    /\ store' # store => (lock = "producer" /\ pc # "render" /\ pc' = pc)

C17_UiHoldsLockOnlyInDraw ==
    /\ [](lock = "ui" <=> pc = "render")
    /\ [][C17_LockStep]_vars
    /\ (lock = "ui") ~> (lock = "free")

C17_Witness ==
    /\ pc = "poll"
    /\ lock = "producer"
    /\ ~cursor
    /\ events # << >>

\* C18: an I/O error of event::poll, event::read or terminal.draw ends the
\* loop in the step it occurs and is what run returns: the failing step
\* consumes no event and changes no view, and after it nothing happens any
\* more -- no event is read, no frame drawn, the error is not replaced.
LoopErrs == {"err_poll", "err_read", "err_draw"}

C18_FailStep ==
    /\ (result = "none" /\ result' \in LoopErrs) =>
          /\ pc \in {"poll", "draw", "flush"}
          /\ pc = "poll" <=> result' \in {"err_poll", "err_read"}
          /\ pc' = "done"
          /\ events' = events
          /\ uiVars' = uiVars
          /\ store' = store
    /\ result \in LoopErrs => UNCHANGED vars

C18_LoopErrorEndsRun ==
    /\ [](result \in LoopErrs => pc = "done")
    /\ [][C18_FailStep]_vars

C18_Witness ==
    /\ pc = "done"
    /\ result = "err_read"
    /\ events # << >>
    /\ ~cursor

\* C19: the render of a draw sets num_entries of the active view to the
\* number of records its collection had when the lock was taken -- the store
\* cannot change between taking the lock and the render, whatever the
\* producer did before or does afterwards -- and leaves the other three
\* views as they were; num_entries changes in no other step.
C19_DrawStep ==
    /\ (pc = "render" /\ pc' = "flush") =>
          /\ views'[tab_index].num_entries = store[tab_index]
          /\ \A t \in Tabs \ {tab_index} : views'[t] = views[t]
    /\ (lock # "ui" /\ lock' = "ui") => store' = store
    /\ pc = "render" => (store' = store /\ tab_index' = tab_index /\ lock = "ui")
    /\ (\E t \in Tabs : views'[t].num_entries # views[t].num_entries) => pc = "render"

C19_DrawTakesRowCountFromStore == [][C19_DrawStep]_vars

C19_Witness ==
    /\ pc = "flush"
    /\ rendered
    /\ tab_index # 0
    /\ views[tab_index].num_entries = MaxRows
    /\ store[tab_index] # MaxRows
    /\ \E t \in Tabs \ {tab_index} : views[t].num_entries # store[t]

\* C20: a navigation key works against the num_entries its view recorded
\* at its own last render, not against the store: a view not rendered since
\* startup has num_entries 0, so on the tab switched to, navigation keys
\* read before the next draw leave the cursor unset though the collection
\* has records; a view keeps its num_entries until it is the active tab at
\* a render.
C20_NavStep ==
    LET v == views[tab_index]
    IN  /\ (pc = "poll" /\ Consumed /\ Head(events) \in NavKeys) =>
              /\ v.num_entries = 0 => views' = views
              /\ views'[tab_index].num_entries = v.num_entries
              /\ views'[tab_index].selected # v.selected =>
                    /\ 0 <= views'[tab_index].selected
                    /\ views'[tab_index].selected < v.num_entries
        /\ \A t \in Tabs :
              views'[t].num_entries # views[t].num_entries =>
                  (pc = "render" /\ t = tab_index)

====
